---- MODULE Spec2Model ----
(***************************************************************************)
(* Model of src/notion_sync.py: the mapping-driven sync of local game      *)
(* records to a remote page collection.                                    *)
(*                                                                         *)
(* Python strings are sequences of tokens (a token is one TLA+ string: a   *)
(* blank " ", a word, a part of an ISO timestamp, a part of a decimal).    *)
(* A Python value is a record [k, v]: k is "none" (None), "str" or "num"   *)
(* (int/float), v is the token sequence of str(value); None has v = <<>>.  *)
(***************************************************************************)
EXTENDS Integers, Sequences, FiniteSets, TLC

\* ------------------------------------------------------------------ values

PyNone == [k |-> "none", v |-> <<>>]
PyStr(s) == [k |-> "str", v |-> s]
PyNum(s) == [k |-> "num", v |-> s]

\* str(value)
Str(value) == IF value.k = "none" THEN <<"None">> ELSE value.v

\* bool(value): None, "" and 0 are falsy
Truthy(value) ==
  CASE value.k = "none" -> FALSE
    [] value.k = "str" -> value.v # <<>>
    [] OTHER -> value.v \notin {<<"0">>, <<"0", ".", "0">>}

RECURSIVE LStrip(_)
LStrip(s) == IF s # <<>> /\ Head(s) = " " THEN LStrip(Tail(s)) ELSE s

RECURSIVE RStrip(_)
RStrip(s) ==
  IF s # <<>> /\ s[Len(s)] = " " THEN RStrip(SubSeq(s, 1, Len(s) - 1)) ELSE s

\* str.strip()
Strip(s) == RStrip(LStrip(s))

LowerTok(t) == IF t \in {"None", "NONE", "none"} THEN "none" ELSE t

\* str.lower()
Lower(s) == [i \in 1..Len(s) |-> LowerTok(s[i])]

\* ------------------------------------------------------------------ dates

DateToks == {"2024-01-01", "2024-01-02"}
HMToks == {"00:00", "10:00"}
SecToks == {":00", ":30"}
FracToks == {".000"}
TZToks == {"+00:00"}

\* value_str.replace("Z", "+00:00")
ReplaceZ(s) == [i \in 1..Len(s) |-> IF s[i] = "Z" THEN "+00:00" ELSE s[i]]

\* the timestamp without a trailing UTC offset
DropTZ(s) ==
  IF Len(s) >= 2 /\ s[Len(s)] \in TZToks THEN SubSeq(s, 1, Len(s) - 1) ELSE s

\* datetime.fromisoformat accepts YYYY-MM-DD[THH:MM[:SS[.fff]]][+HH:MM]
\* (and a date directly followed by an offset, which it reads as midnight)
IsoParses(s) ==
  LET b == DropTZ(s) IN
  /\ Len(b) \in {1, 3, 4, 5}
  /\ b[1] \in DateToks
  /\ Len(b) >= 3 => b[2] = "T" /\ b[3] \in HMToks
  /\ Len(b) >= 4 => b[4] \in SecToks
  /\ Len(b) >= 5 => b[5] \in FracToks

\* dt.strftime("%Y-%m-%dT%H:%M:%S")
StrfSecond(s) ==
  <<s[1], "T", IF Len(s) >= 3 THEN s[3] ELSE "00:00",
    IF Len(s) >= 4 /\ s[4] \in SecToks THEN s[4] ELSE ":00">>

\* dt.strftime("%Y-%m-%dT%H:%M")
StrfMinute(s) == <<s[1], "T", IF Len(s) >= 3 THEN s[3] ELSE "00:00">>

\* ---------------------------------------------------------------- numbers

\* str(n) for the integers the model renders
NumTokens ==
  <<"0", "1", "2", "3", "4", "5", "6", "7", "8", "9", "10", "11", "12",
    "13", "14", "15", "16", "17", "18", "19", "20", "21", "22">>

IntTok(n) == NumTokens[n + 1]
IsIntTok(t) == \E i \in 1..Len(NumTokens) : NumTokens[i] = t
IntVal(t) == (CHOOSE i \in 1..Len(NumTokens) : NumTokens[i] = t) - 1

\* the digits after the decimal point, in hundredths: one digit, or one of
\* the two-digit fractions the model uses
FracTable == <<<<"04", 4>>, <<"14", 14>>, <<"96", 96>>>>

IsFracTok(t) ==
  \/ \E i \in 1..10 : NumTokens[i] = t
  \/ \E i \in 1..Len(FracTable) : FracTable[i][1] = t

FracVal(t) ==
  IF \E i \in 1..10 : NumTokens[i] = t
    THEN 10 * IntVal(t)
    ELSE FracTable[CHOOSE i \in 1..Len(FracTable) : FracTable[i][1] = t][2]

\* float(value): [ok, neg, h] with |value| = h / 100
ParseFloat(s0) ==
  LET s == Strip(s0)
      neg == s # <<>> /\ Head(s) = "-"
      b == IF neg THEN Tail(s) ELSE s
  IN IF Len(b) = 1 /\ IsIntTok(b[1])
       THEN [ok |-> TRUE, neg |-> neg, h |-> 100 * IntVal(b[1])]
     ELSE IF Len(b) = 3 /\ IsIntTok(b[1]) /\ b[2] = "." /\ IsFracTok(b[3])
       THEN [ok |-> TRUE, neg |-> neg, h |-> 100 * IntVal(b[1]) + FracVal(b[3])]
     ELSE [ok |-> FALSE, neg |-> FALSE, h |-> 0]

\* str(int(num)) when num.is_integer(), else f"{num:.1f}"
\* (no modelled input lies on a rounding tie)
FormatNumber(p) ==
  IF p.h % 100 = 0
    THEN (IF p.neg /\ p.h > 0 THEN <<"-">> ELSE <<>>) \o <<IntTok(p.h \div 100)>>
    ELSE LET t == (p.h + 5) \div 10 IN
         (IF p.neg THEN <<"-">> ELSE <<>>)
           \o <<IntTok(t \div 10), ".", IntTok(t % 10)>>

\* -------------------------------------------------------------- normalize

normalize_value(value, field_type) ==
  IF \/ value.k = "none"
     \/ (value.k = "str" /\ value.v = <<>>)
     \/ Strip(Str(value)) = <<>>
     \/ Lower(Str(value)) = <<"none">>
    THEN <<>>
  ELSE IF field_type = "date"
    THEN LET value_str == Strip(Str(value)) IN
         IF value_str = <<>> \/ Lower(value_str) = <<"none">> THEN <<>>
         ELSE IF IsoParses(ReplaceZ(value_str))
           THEN StrfMinute(ReplaceZ(value_str))
           ELSE <<>>
  ELSE IF field_type = "number"
    THEN LET p == ParseFloat(Str(value)) IN
         IF p.ok THEN FormatNumber(p) ELSE Strip(Str(value))
  ELSE IF value.k = "str" THEN Strip(value.v)
  ELSE Str(value)

\* ------------------------------------------------------- records, mapping

\* A local record (game) is a function from some field names to values.
\* A mapping is the sequence of the entries of mapping.json, in file order:
\*   [local, notion_field, type, has_format, format]
\* where format is a sequence of parts [ref, s]: a {field} reference or a
\* literal token.

EmptyMap == [x \in {} |-> PyNone]

\* dict.get(key, default)
Get(d, key, default) == IF key \in DOMAIN d THEN d[key] ELSE default

\* the local_field -> map_info dictionary lookup mapping.get(key)
HasEntry(mapping, key) == \E i \in 1..Len(mapping) : mapping[i].local = key
EntryOf(mapping, key) ==
  mapping[CHOOSE i \in 1..Len(mapping) : mapping[i].local = key]

FormatFields(fmt) == {fmt[i].s : i \in {j \in 1..Len(fmt) : fmt[j].ref}}

\* fmt.format(**game) raises KeyError when a referenced field is missing
FormatRaises(fmt, game) == ~(FormatFields(fmt) \subseteq DOMAIN game)

RECURSIVE FormatFrom(_, _, _)
FormatFrom(fmt, game, i) ==
  IF i > Len(fmt) THEN <<>>
  ELSE (IF fmt[i].ref THEN Str(game[fmt[i].s]) ELSE <<fmt[i].s>>)
         \o FormatFrom(fmt, game, i + 1)

\* fmt.format(**game)
Format(fmt, game) == PyStr(FormatFrom(fmt, game, 1))

\* the raw value of one mapping entry (lines 96-100 and 304-308)
EntryValue(e, game) ==
  IF e.has_format THEN Format(e.format, game)
  ELSE Get(game, e.local, PyStr(<<>>))

EntryRaises(e, game) == e.has_format /\ FormatRaises(e.format, game)

\* some entry of the mapping raises KeyError on this record
MappingRaises(mapping, game) ==
  \E i \in 1..Len(mapping) : EntryRaises(mapping[i], game)

\* ------------------------------------------------------------------ encode

\* an encoder without the test of line 107: every entry is emitted
HasWireAlways(field_type, value) == TRUE

\* the wire entry of one value; HasWire says whether one is emitted at all
HasWire(field_type, value) == field_type = "date" => Truthy(value)

Wire(field_type, value) ==
  CASE field_type = "title" -> [kind |-> "title", val |-> PyStr(Str(value))]
    [] field_type = "number" -> [kind |-> "number", val |-> value]
    [] field_type = "date" -> [kind |-> "date", val |-> value]
    [] field_type = "url" -> [kind |-> "url", val |-> PyStr(Str(value))]
    [] OTHER -> [kind |-> "rich_text", val |-> PyStr(Str(value))]

RECURSIVE BuildFrom(_, _, _, _)
BuildFrom(game, mapping, i, props) ==
  IF i > Len(mapping) THEN props
  ELSE LET e == mapping[i]
           value == EntryValue(e, game)
       IN BuildFrom(game, mapping, i + 1,
            IF HasWire(e.type, value)
              THEN (e.notion_field :> Wire(e.type, value)) @@ props
              ELSE props)

\* build_properties(game, mapping), for a record on which no format raises
build_properties(game, mapping) == BuildFrom(game, mapping, 1, EmptyMap)

\* ------------------------------------------------------------------ decode

\* A page is [id, properties, cover]: properties maps remote field names to
\* [kind, val]; cover is [kind, url] with kind "none", "external" or "file".

\* a decoder without the rich_text branch: rich text reads as ""
DecodeValueNoRichText(prop, field_type) ==
  CASE field_type = "title" ->
         IF prop.kind = "title" THEN PyStr(Strip(prop.val.v)) ELSE PyStr(<<>>)
    [] field_type = "number" ->
         IF prop.kind = "number" THEN prop.val ELSE PyNone
    [] field_type = "date" ->
         IF prop.kind = "date" /\ prop.val.k # "none" THEN prop.val
         ELSE PyStr(<<>>)
    [] field_type = "url" ->
         IF prop.kind = "url" THEN PyStr(Strip(prop.val.v)) ELSE PyStr(<<>>)
    [] OTHER -> PyStr(<<>>)

\* the value read from one property under the mapping's type (lines 169-187)
DecodeValue(prop, field_type) ==
  CASE field_type = "title" ->
         IF prop.kind = "title" THEN PyStr(Strip(prop.val.v)) ELSE PyStr(<<>>)
    [] field_type = "number" ->
         IF prop.kind = "number" THEN prop.val ELSE PyNone
    [] field_type = "date" ->
         IF prop.kind = "date" /\ prop.val.k # "none" THEN prop.val
         ELSE PyStr(<<>>)
    [] field_type = "url" ->
         IF prop.kind = "url" THEN PyStr(Strip(prop.val.v)) ELSE PyStr(<<>>)
    [] field_type = "rich_text" ->
         IF prop.kind = "rich_text" THEN PyStr(Strip(prop.val.v))
         ELSE PyStr(<<>>)
    [] OTHER -> PyStr(<<>>)

\* prop.get("url", "").strip() raises AttributeError on a null url
DecodeRaises(prop, field_type) ==
  field_type = "url" /\ prop.kind = "url" /\ prop.val.k = "none"

ExtractRaises(page, mapping) ==
  \E i \in 1..Len(mapping) :
    /\ mapping[i].notion_field \in DOMAIN page.properties
    /\ DecodeRaises(page.properties[mapping[i].notion_field], mapping[i].type)

CoverUrl(page) ==
  IF page.cover.kind \in {"external", "file"} THEN Strip(page.cover.url)
  ELSE <<>>

\* a decoder that gives every mapped local field a key, "" when the page
\* lacks the property
extract_page_properties_all_keys(page, mapping) ==
  [key \in {mapping[i].local : i \in 1..Len(mapping)} \cup {"cover"} |->
     IF key = "cover" THEN CoverUrl(page)
     ELSE LET e == EntryOf(mapping, key) IN
          IF e.notion_field \in DOMAIN page.properties
            THEN Strip(Str(DecodeValue(page.properties[e.notion_field],
                                       e.type)))
            ELSE <<>>]

\* extract_page_properties(page, mapping): local field -> string, plus cover
extract_page_properties(page, mapping) ==
  LET present == {i \in 1..Len(mapping) :
                    mapping[i].notion_field \in DOMAIN page.properties}
      keys == {mapping[i].local : i \in present}
  IN [key \in keys \cup {"cover"} |->
       IF key = "cover" THEN CoverUrl(page)
       ELSE LET e == EntryOf(mapping, key) IN
            Strip(Str(DecodeValue(page.properties[e.notion_field], e.type)))]

\* -------------------------------------------------------------------- diff

TypeOf(mapping, key) ==
  IF HasEntry(mapping, key) THEN EntryOf(mapping, key).type ELSE "text"

\* a comparison over the keys of both maps
properties_equal_all_keys(existing, new, mapping) ==
  \A key \in DOMAIN new \cup DOMAIN existing :
    normalize_value(IF key \in DOMAIN existing THEN PyStr(existing[key])
                    ELSE PyNone,
                    IF HasEntry(mapping, key) THEN EntryOf(mapping, key).type
                    ELSE "text")
      = normalize_value(IF key \in DOMAIN new THEN PyStr(new[key]) ELSE PyNone,
                        IF HasEntry(mapping, key) THEN EntryOf(mapping, key).type
                        ELSE "text")

\* existing.get(key)
GetStr(props, key) == IF key \in DOMAIN props THEN PyStr(props[key]) ELSE PyNone

properties_equal(existing, new, mapping) ==
  \A key \in DOMAIN new :
    normalize_value(GetStr(existing, key), TypeOf(mapping, key))
      = normalize_value(GetStr(new, key), TypeOf(mapping, key))

\* ------------------------------------------------------------ remote store

\* the first mapping entry of type title names the remote title property
\* (lines 120-124); "" when the mapping has none
TitleField(mapping) ==
  IF \E i \in 1..Len(mapping) : mapping[i].type = "title"
    THEN mapping[CHOOSE i \in 1..Len(mapping) :
                   /\ mapping[i].type = "title"
                   /\ \A j \in 1..(i - 1) : mapping[j].type # "title"].notion_field
    ELSE ""

\* the filter {"property": field, "title": {"equals": name}} on one page
Matches(page, field, name) ==
  /\ field \in DOMAIN page.properties
  /\ page.properties[field].kind = "title"
  /\ page.properties[field].val.v = name

\* data.get("results", []) of the query, as page ids in the store's order
QueryResults(pages, field, name) ==
  SelectSeq([i \in 1..Len(pages) |-> pages[i].id],
            LAMBDA id : \E i \in 1..Len(pages) :
                          pages[i].id = id /\ Matches(pages[i], field, name))

PageOf(pages, id) == pages[CHOOSE i \in 1..Len(pages) : pages[i].id = id]

\* the body of POST /v1/pages and of PATCH /v1/pages/{id} (lines 213-220,
\* 248-253)
Payload(game, mapping) ==
  [properties |-> build_properties(game, mapping),
   cover |-> [kind |-> "external",
              url |-> Strip(Get(game, "Banner", PyStr(<<>>)).v)]]

\* the store after a successful POST /v1/pages: a new page holding exactly
\* the submitted properties and cover
StoreCreate(pages, data) ==
  Append(pages, [id |-> Len(pages) + 1,
                 properties |-> data.properties,
                 cover |-> data.cover])

\* the store after a successful PATCH: the submitted properties replace the
\* page's entries of the same name, the others stay; the cover is replaced
StoreUpdate(pages, id, data) ==
  [i \in 1..Len(pages) |->
     IF pages[i].id = id
       THEN [id |-> id,
             properties |-> data.properties @@ pages[i].properties,
             cover |-> data.cover]
       ELSE pages[i]]

\* ------------------------------------------------------------------ inputs

MaxGames == 2
MaxFaults == 3
MaxRuns == 2

ETitle ==
  [local |-> "Game Name", notion_field |-> "Name", type |-> "title",
   has_format |-> FALSE, format |-> <<>>]
EDate ==
  [local |-> "Last Played", notion_field |-> "Last Played", type |-> "date",
   has_format |-> FALSE, format |-> <<>>]
EAch ==
  [local |-> "Achievements", notion_field |-> "Achievements",
   type |-> "rich_text", has_format |-> TRUE,
   format |-> <<[ref |-> TRUE, s |-> "Achievements Unlocked"],
                [ref |-> FALSE, s |-> "/"],
                [ref |-> TRUE, s |-> "Achievements Total"]>>]
EApp ==
  [local |-> "Store Page", notion_field |-> "Store Page", type |-> "url",
   has_format |-> TRUE,
   format |-> <<[ref |-> FALSE, s |-> "https://store/app/"],
                [ref |-> TRUE, s |-> "AppID"]>>]
EFlag ==
  [local |-> "Icon", notion_field |-> "Icon", type |-> "checkbox",
   has_format |-> FALSE, format |-> <<>>]

\* the mapping files of the model: well-formed ones, one without a title
\* entry and one with a wire type the code does not know
Mappings ==
  {<<ETitle, EDate>>, <<ETitle, EAch>>, <<ETitle, EApp>>, <<EDate>>,
   <<ETitle, EFlag>>}

WireTypes == {"title", "number", "date", "url", "rich_text", "text"}

Malformed(m) ==
  \/ TitleField(m) = ""
  \/ \E i \in 1..Len(m) : m[i].type \notin WireTypes

DateA == <<"2024-01-01", "T", "10:00", ":30">>
DateOld == <<"2024-01-02", "T", "00:00">>

\* records as steam_fetcher.process_games writes them
GameA ==
  [f \in {"Game Name", "Last Played", "Banner", "AppID", "Icon",
          "Achievements Unlocked", "Achievements Total"} |->
     CASE f = "Game Name" -> PyStr(<<"A">>)
       [] f = "Last Played" -> PyStr(DateA)
       [] f = "Banner" -> PyStr(<<"https://cdn/a.jpg">>)
       [] f = "AppID" -> PyNum(<<"1">>)
       [] f = "Icon" -> PyNone
       [] f = "Achievements Unlocked" -> PyNum(<<"1">>)
       [] OTHER -> PyNum(<<"3">>)]

\* never played, no achievements, and no AppID
GameB ==
  [f \in {"Game Name", "Last Played", "Banner", "Icon"} |->
     CASE f = "Game Name" -> PyStr(<<"B">>)
       [] f = "Last Played" -> PyNone
       [] f = "Banner" -> PyStr(<<"https://cdn/b.jpg">>)
       [] OTHER -> PyNone]

\* a record whose name is blank
GameBlank ==
  [f \in {"Game Name", "Banner"} |->
     IF f = "Game Name" THEN PyStr(<<" ">>) ELSE PyStr(<<"https://cdn/c.jpg">>)]

Games == {GameA, GameB, GameBlank}

GameLists == UNION {[1..n -> Games] : n \in 1..MaxGames}

PageFor(id, name, date, banner) ==
  [id |-> id,
   properties |->
     ("Name" :> [kind |-> "title", val |-> PyStr(name)])
       @@ ("Last Played" :> [kind |-> "date", val |-> date]),
   cover |-> [kind |-> "external", url |-> banner]]

\* the remote collection before the first run: empty; a page for B that
\* holds a date; two pages named A, the first of them out of date
Stores ==
  {<<>>,
   <<PageFor(1, <<"B">>, PyStr(DateOld), <<"https://cdn/b.jpg">>)>>,
   <<PageFor(1, <<"A">>, PyStr(DateOld), <<"https://cdn/a.jpg">>),
     PageFor(2, <<"A">>, PyStr(DateA), <<"https://cdn/a.jpg">>)>>}

\* ------------------------------------------------------------------- state

VARIABLES
  mapping,         \* load_mapping()
  games,           \* the records of INPUT_JSON_FILE
  store,           \* the pages of the remote collection
  cache,           \* _DATA_SOURCE_ID_CACHE ("" is None)
  run,             \* which call of sync_games_to_notion this is
  pc,              \* where that call stands
  data_source_id,  \* its local data_source_id
  idx,             \* the index of `game` in games
  attempt,         \* `attempt` of the retry loop in progress
  existing_page,   \* the id of the page find_existing_page returned, 0: None
  faults,          \* failed requests so far
  log,             \* every request sent and every pacing sleep, in order
  call             \* a function of the module applied on its own: its
                   \* arguments and, once it has returned, its result

vars ==
  <<mapping, games, store, cache, run, pc, data_source_id, idx, attempt,
    existing_page, faults, log, call>>

\* the state of a sync run
sync ==
  <<mapping, games, store, cache, run, pc, data_source_id, idx, attempt,
    existing_page, faults, log>>

\* no function is applied on its own during a sync run
NoCall == [fn |-> "none"]

inputs == <<mapping, games>>

\* max_retries of find_existing_page, create_page and update_page
max_retries == 3

\* the ways one request can end: a 200/201 response, another status code,
\* requests.exceptions.SSLError, or another exception of requests (a
\* timeout, a refused connection)
Outcomes == {"ok", "http", "ssl", "timeout"}

Allowed(o) == o = "ok" \/ faults < MaxFaults

\* one entry of the log: the request `op` of record `rec` in run `run`, its
\* attempt number, how it ended, the page it found, made or addressed, the
\* collection id it used, where the run went next and, for a Lookup that found
\* a page, whether the comparison of line 316 found no difference (it prints
\* the differing field at line 206 otherwise)
Event(op, o, id, next, equal) ==
  [run |-> run, rec |-> idx, op |-> op, att |-> attempt + 1, res |-> o,
   id |-> id, ds |-> data_source_id, next |-> next, equal |-> equal]

\* safe_game with a default for every field a format may name
SafeGameAppId(game) ==
  [f \in DOMAIN game \cup {"Achievements Unlocked", "Achievements Total", "AppID"} |->
     IF f \in DOMAIN game THEN game[f]
     ELSE IF f = "Achievements Total" THEN PyStr(<<"no achievements">>)
     ELSE PyStr(<<"0">>)]

\* safe_game: the record with the two achievement defaults (lines 297-299)
SafeGame(game) ==
  [f \in DOMAIN game \cup {"Achievements Unlocked", "Achievements Total"} |->
     IF f \in DOMAIN game THEN game[f]
     ELSE IF f = "Achievements Unlocked" THEN PyStr(<<"0">>)
     ELSE PyStr(<<"no achievements">>)]

\* new_props: the local side of the comparison (lines 302-311)
NewProps(safe_game, m) ==
  [key \in {m[i].local : i \in 1..Len(m)} \cup {"cover"} |->
     IF key = "cover" THEN Strip(Get(safe_game, "Banner", PyStr(<<>>)).v)
     ELSE Strip(Str(EntryValue(EntryOf(m, key), safe_game)))]

\* a retry loop that tests attempt < max_retries
RetriesOffByOne(o, att) == o = "ssl" /\ att < max_retries

\* a retry loop that catches every exception of requests as it does SSLError
RetriesAnyError(o, att) == o \in {"ssl", "timeout"} /\ att < max_retries - 1

\* the retry loops go round again exactly on an SSLError that is not the
\* last attempt (lines 149-153, 233-237, 266-270)
Retries(o, att) == o = "ssl" /\ att < max_retries - 1

Init ==
  /\ mapping \in Mappings
  /\ games \in GameLists
  /\ store \in Stores
  /\ cache = ""
  /\ run = 1
  /\ pc = "start"
  /\ data_source_id = ""
  /\ idx = 0
  /\ attempt = 0
  /\ existing_page = 0
  /\ faults = 0
  /\ log = <<>>
  /\ call = NoCall

\* ----------------------------------------------------------------- actions

ResolveOutcomes == {"ok", "http", "empty", "timeout"}

\* a run that goes on to its loop whatever get_data_source_id returned
AfterResolveNoReturn(o) == IF o = "timeout" THEN "aborted" ELSE "loop"

\* lines 282-285: the run returns when get_data_source_id returned None; an
\* exception of its requests.get ends the run, too
AfterResolve(o) ==
  CASE o = "ok" -> "loop" [] o = "timeout" -> "aborted" [] OTHER -> "done"

\* a get_data_source_id that sends its GET whether or not the cache is set
StartNoCache(o) ==
  /\ pc = "start"
  /\ Allowed(o)
  /\ pc' = AfterResolve(o)
  /\ data_source_id' = IF o = "ok" THEN "ds-1" ELSE ""
  /\ log' = Append(log, [run |-> run, rec |-> 0, op |-> "Resolve",
                         att |-> 1, res |-> o, id |-> 0,
                         ds |-> data_source_id',
                         next |-> pc', equal |-> FALSE])
  /\ faults' = faults + (IF o = "ok" THEN 0 ELSE 1)
  /\ cache' = IF o = "ok" THEN "ds-1" ELSE cache
  /\ idx' = 1
  /\ attempt' = 0
  /\ UNCHANGED <<mapping, games, store, run, existing_page>>
  /\ UNCHANGED call

\* sync_games_to_notion up to its loop (lines 280-290): load_mapping and
\* get_data_source_id (lines 31-58). The GET is sent only when the cache is
\* unset; a status other than 200 ("http") or a database without data
\* sources ("empty") makes it return None and the run return; an exception
\* of requests.get is caught nowhere.
Start(o) ==
  /\ pc = "start"
  /\ IF cache # ""
       THEN /\ o = "ok"
            /\ data_source_id' = cache
            /\ pc' = "loop"
            /\ UNCHANGED <<cache, faults, log>>
       ELSE /\ Allowed(o)
            /\ pc' = AfterResolve(o)
            /\ data_source_id' = IF o = "ok" THEN "ds-1" ELSE ""
            /\ log' = Append(log, [run |-> run, rec |-> 0, op |-> "Resolve",
                                   att |-> 1, res |-> o, id |-> 0,
                                   ds |-> data_source_id',
                                   next |-> pc', equal |-> FALSE])
            /\ faults' = faults + (IF o = "ok" THEN 0 ELSE 1)
            /\ cache' = IF o = "ok" THEN "ds-1" ELSE cache
  /\ idx' = 1
  /\ attempt' = 0
  /\ UNCHANGED <<mapping, games, store, run, existing_page>>
  /\ UNCHANGED call

\* game_name without the strip()
GameNameNoStrip(game) == Get(game, "Game Name", PyStr(<<>>)).v

\* game_name (line 292)
GameName(game) == Strip(Get(game, "Game Name", PyStr(<<>>)).v)

\* the top of one iteration of the for loop, up to the first request (lines
\* 291-313 and 118-137): skip a record without a name; build new_props, where
\* a format that names a missing field raises KeyError out of the run; look
\* for the title property, and without one find_existing_page returns None
\* at once, which sends the run to create_page
Loop ==
  /\ pc = "loop"
  /\ IF idx > Len(games)
       THEN /\ pc' = "done"
            /\ UNCHANGED <<idx, existing_page>>
       ELSE IF GameName(games[idx]) = <<>>
         THEN /\ idx' = idx + 1
              /\ UNCHANGED <<pc, existing_page>>
       ELSE IF MappingRaises(mapping, SafeGame(games[idx]))
         THEN /\ pc' = "aborted"
              /\ UNCHANGED <<idx, existing_page>>
       ELSE IF TitleField(mapping) = ""
         THEN /\ pc' = "create"
              /\ existing_page' = 0
              /\ UNCHANGED idx
       ELSE /\ pc' = "lookup"
            /\ UNCHANGED <<idx, existing_page>>
  /\ attempt' = 0
  /\ UNCHANGED <<mapping, games, store, cache, run, data_source_id, faults, log>>
  /\ UNCHANGED call

\* the branch of lines 314-323 with the comparison of line 316 left out
AfterLookupNoSkip(found, game) ==
  IF found = 0 THEN "create"
  ELSE IF ExtractRaises(PageOf(store, found), mapping) THEN "aborted"
  ELSE "update"

\* lines 314-323: what follows find_existing_page's return of `found`
AfterLookup(found, game) ==
  IF found = 0 THEN "create"
  ELSE IF ExtractRaises(PageOf(store, found), mapping) THEN "aborted"
  ELSE IF properties_equal(extract_page_properties(PageOf(store, found), mapping),
                           NewProps(SafeGame(game), mapping), mapping)
    THEN "pace"
  ELSE "update"

\* one attempt of find_existing_page's retry loop (lines 140-159) and, when
\* it returns, the branch sync_games_to_notion takes (lines 314-323)
LookupAttempt(o) ==
  /\ pc = "lookup"
  /\ Allowed(o)
  /\ LET results == IF o = "ok"
                      THEN QueryResults(store, TitleField(mapping),
                                        GameName(games[idx]))
                      ELSE <<>>
         found == IF results # <<>> THEN results[1] ELSE 0
     IN /\ IF Retries(o, attempt)
             THEN /\ attempt' = attempt + 1
                  /\ UNCHANGED <<pc, existing_page>>
             ELSE /\ attempt' = 0
                  /\ existing_page' = found
                  /\ pc' = AfterLookup(found, games[idx])
        /\ log' = Append(log, Event("Lookup", o, found, pc',
                                    /\ found # 0
                                    /\ ~ExtractRaises(PageOf(store, found), mapping)
                                    /\ properties_equal(
                                         extract_page_properties(
                                           PageOf(store, found), mapping),
                                         NewProps(SafeGame(games[idx]), mapping),
                                         mapping)))
  /\ faults' = faults + (IF o = "ok" THEN 0 ELSE 1)
  /\ UNCHANGED <<mapping, games, store, cache, run, data_source_id, idx>>
  /\ UNCHANGED call

\* one attempt of create_page's retry loop (lines 222-243)
CreateAttempt(o) ==
  /\ pc = "create"
  /\ Allowed(o)
  /\ IF Retries(o, attempt)
       THEN attempt' = attempt + 1 /\ pc' = pc
       ELSE attempt' = 0 /\ pc' = "pace"
  /\ log' = Append(log, Event("Create", o,
                              IF o = "ok" THEN Len(store) + 1 ELSE 0, pc',
                              FALSE))
  /\ store' = IF o = "ok"
                THEN StoreCreate(store, Payload(SafeGame(games[idx]), mapping))
                ELSE store
  /\ faults' = faults + (IF o = "ok" THEN 0 ELSE 1)
  /\ UNCHANGED <<mapping, games, cache, run, data_source_id, idx, existing_page>>
  /\ UNCHANGED call

\* one attempt of update_page's retry loop (lines 255-276)
UpdateAttempt(o) ==
  /\ pc = "update"
  /\ Allowed(o)
  /\ IF Retries(o, attempt)
       THEN attempt' = attempt + 1 /\ pc' = pc
       ELSE attempt' = 0 /\ pc' = "pace"
  /\ log' = Append(log, Event("Update", o, existing_page, pc', FALSE))
  /\ store' = IF o = "ok"
                THEN StoreUpdate(store, existing_page,
                                 Payload(SafeGame(games[idx]), mapping))
                ELSE store
  /\ faults' = faults + (IF o = "ok" THEN 0 ELSE 1)
  /\ UNCHANGED <<mapping, games, cache, run, data_source_id, idx, existing_page>>
  /\ UNCHANGED call

\* a loop that starts over at the first record after the last one
PaceWrap ==
  /\ pc = "pace"
  /\ log' = Append(log, [Event("Pace", "ok", 0, "loop", FALSE) EXCEPT !.att = 1])
  /\ idx' = IF idx >= Len(games) THEN 1 ELSE idx + 1
  /\ pc' = "loop"
  /\ UNCHANGED <<mapping, games, store, cache, run, data_source_id, attempt,
                 existing_page, faults>>
  /\ UNCHANGED call

\* the step to the next record without the sleep
PaceNoSleep ==
  /\ pc = "pace"
  /\ idx' = idx + 1
  /\ pc' = "loop"
  /\ UNCHANGED <<mapping, games, store, cache, run, data_source_id, attempt,
                 existing_page, faults, log>>
  /\ UNCHANGED call

\* time.sleep(0.3) and the step to the next record (line 324)
Pace ==
  /\ pc = "pace"
  /\ log' = Append(log, [Event("Pace", "ok", 0, "loop", FALSE) EXCEPT !.att = 1])
  /\ idx' = idx + 1
  /\ pc' = "loop"
  /\ UNCHANGED <<mapping, games, store, cache, run, data_source_id, attempt,
                 existing_page, faults>>
  /\ UNCHANGED call

\* sync_games_to_notion is called again over the same files: in the same
\* process (the module's cache is kept) or in a new one (it starts unset)
Rerun(keep) ==
  /\ pc = "done"
  /\ run < MaxRuns
  /\ run' = run + 1
  /\ pc' = "start"
  /\ cache' = IF keep THEN cache ELSE ""
  /\ data_source_id' = ""
  /\ idx' = 0
  /\ UNCHANGED <<mapping, games, store, attempt, existing_page, faults, log>>
  /\ UNCHANGED call

Next ==
  \/ \E o \in ResolveOutcomes : Start(o)
  \/ Loop
  \/ \E o \in Outcomes : LookupAttempt(o)
  \/ \E o \in Outcomes : CreateAttempt(o)
  \/ \E o \in Outcomes : UpdateAttempt(o)
  \/ Pace
  \/ \E keep \in BOOLEAN : Rerun(keep)

Spec == Init /\ [][Next]_vars

\* --------------------------------------------- one record, every type
\*
\* Runs over one record under mappings of every wire type, against a
\* collection that is empty or holds one page of the record's name, with
\* every request answered 2xx.

ENumber ==
  [local |-> "Playtime Hours", notion_field |-> "Playtime", type |-> "number",
   has_format |-> FALSE, format |-> <<>>]
EUrl ==
  [local |-> "Icon", notion_field |-> "Icon", type |-> "url",
   has_format |-> FALSE, format |-> <<>>]
ERich ==
  [local |-> "Logo", notion_field |-> "Logo", type |-> "rich_text",
   has_format |-> FALSE, format |-> <<>>]
EText ==
  [local |-> "Logo", notion_field |-> "Logo", type |-> "text",
   has_format |-> FALSE, format |-> <<>>]

\* a title entry keyed on a local field other than "Game Name"
ETitleApp ==
  [local |-> "AppID", notion_field |-> "Name", type |-> "title",
   has_format |-> FALSE, format |-> <<>>]

CodecMappings ==
  {<<ETitle, e>> : e \in {EDate, ENumber, EUrl, ERich, EText, EAch, EApp}}
    \cup {<<ETitle, ENumber, EDate, EUrl, ERich>>, <<ETitleApp, EDate>>}

\* "Last Played" as the record file can hold it: null, empty, timestamps of
\* the same minute in two spellings, another day, and no timestamp at all
LocalDates ==
  {PyNone, PyStr(<<>>), PyStr(DateA),
   PyStr(<<"2024-01-01", "T", "10:00", ":00", "Z">>), PyStr(DateOld),
   PyStr(<<"yesterday">>)}

Hours == {PyNum(<<"21", ".", "3">>), PyNum(<<"0">>)}

GameWith(date, hours) ==
  [f \in {"Game Name", "AppID", "Playtime Hours", "Last Played", "Banner",
          "Icon", "Logo"} |->
     CASE f = "Game Name" -> PyStr(<<"A">>)
       [] f = "AppID" -> PyNum(<<"1">>)
       [] f = "Playtime Hours" -> hours
       [] f = "Last Played" -> date
       [] f = "Banner" -> PyStr(<<"https://cdn/a.jpg">>)
       [] f = "Icon" -> PyStr(<<"https://cdn/icon.jpg">>)
       [] OTHER -> PyStr(<<" ", "logo">>)]

\* a record with a name and a banner and none of the other fields
GameBare ==
  [f \in {"Game Name", "Banner"} |->
     IF f = "Game Name" THEN PyStr(<<"A">>) ELSE PyStr(<<"https://cdn/a.jpg">>)]

\* a record whose name has a blank in front of it
GamePadded ==
  [f \in {"Game Name", "Banner"} |->
     IF f = "Game Name" THEN PyStr(<<" ", "A">>)
     ELSE PyStr(<<"https://cdn/a.jpg">>)]

CodecGames ==
  {GameWith(d, h) : d \in LocalDates, h \in Hours} \cup {GameBare, GamePadded}

\* the date of the page: the minute of DateA in two spellings, another day
RemoteDates ==
  {PyStr(<<"2024-01-01", "T", "10:00">>),
   PyStr(<<"2024-01-01", "T", "10:00", ":00", ".000", "Z">>), PyStr(DateOld)}

Covers == {<<"https://cdn/a.jpg">>, <<"https://cdn/old.jpg">>}

\* a page of the name A that holds every property the mappings name
FullPage(date, banner) ==
  [id |-> 1,
   properties |->
     [f \in {"Name", "Last Played", "Playtime", "Icon", "Logo", "Achievements",
             "Store Page"} |->
        CASE f = "Name" -> [kind |-> "title", val |-> PyStr(<<"A">>)]
          [] f = "Last Played" -> [kind |-> "date", val |-> date]
          [] f = "Playtime" ->
               [kind |-> "number", val |-> PyNum(<<"21", ".", "3">>)]
          [] f = "Icon" -> [kind |-> "url", val |-> PyStr(<<"https://cdn/icon.jpg">>)]
          [] f = "Logo" -> [kind |-> "rich_text", val |-> PyStr(<<"logo">>)]
          [] f = "Achievements" ->
               [kind |-> "rich_text", val |-> PyStr(<<"0", "/", "no achievements">>)]
          [] OTHER -> [kind |-> "url", val |-> PyStr(<<"https://store/app/", "1">>)]],
   cover |-> [kind |-> "external", url |-> banner]]

\* a page of the name A made by hand and left empty: no cover, and null for
\* the date, number and url properties, empty lists for the texts
NullPage ==
  [id |-> 1,
   properties |->
     [f \in {"Name", "Last Played", "Playtime", "Icon", "Logo", "Achievements",
             "Store Page"} |->
        CASE f = "Name" -> [kind |-> "title", val |-> PyStr(<<"A">>)]
          [] f = "Last Played" -> [kind |-> "date", val |-> PyNone]
          [] f = "Playtime" -> [kind |-> "number", val |-> PyNone]
          [] f = "Icon" -> [kind |-> "url", val |-> PyNone]
          [] f = "Logo" -> [kind |-> "rich_text", val |-> PyStr(<<>>)]
          [] f = "Achievements" -> [kind |-> "rich_text", val |-> PyStr(<<>>)]
          [] OTHER -> [kind |-> "url", val |-> PyNone]],
   cover |-> [kind |-> "none", url |-> <<>>]]

CodecStores ==
  {<<>>, <<NullPage>>}
    \cup {<<FullPage(d, c)>> : d \in RemoteDates, c \in Covers}

InitCodec ==
  /\ mapping \in CodecMappings
  /\ games \in {<<g>> : g \in CodecGames}
  /\ store \in CodecStores
  /\ cache = ""
  /\ run = 1
  /\ pc = "start"
  /\ data_source_id = ""
  /\ idx = 0
  /\ attempt = 0
  /\ existing_page = 0
  /\ faults = MaxFaults
  /\ log = <<>>
  /\ call = NoCall

SpecCodec == InitCodec /\ [][Next]_vars

\* ---------------------------------------- the functions on their own
\*
\* normalize_value and properties_equal applied to arguments of their own,
\* outside a sync run.

MaxPad == 1

\* 0..n blanks
RECURSIVE Blanks(_)
Blanks(n) == IF n = 0 THEN <<>> ELSE <<" ">> \o Blanks(n - 1)

\* s with up to MaxPad blanks before and after it
Padded(s) ==
  {Blanks(a) \o s \o Blanks(b) : a \in 0..MaxPad, b \in 0..MaxPad}

\* the texts a field can hold: nothing, words, the spellings of None,
\* decimals, timestamps and a text that is no timestamp
Texts ==
  {<<>>, <<"A">>, <<"None">>, <<"none">>, <<"NONE">>, <<"yesterday">>,
   <<"3">>, <<"3", ".", "0">>, <<"3", ".", "14">>, <<"0", ".", "96">>,
   <<"-", "0", ".", "04">>, <<"21", ".", "3">>,
   <<"2024-01-01">>, <<"2024-01-01", "Z">>,
   <<"2024-01-01", "T", "10:00">>, <<"2024-01-01", "T", "10:00", "Z">>,
   <<"2024-01-01", "T", "10:00", ":00", "Z">>,
   <<"2024-01-01", "T", "10:00", ":30">>,
   <<"2024-01-01", "T", "10:00", ":00", ".000", "Z">>,
   <<"2024-01-02", "T", "00:00">>}

\* the numbers a field can hold, as Python prints them
Numbers ==
  {<<"0">>, <<"3">>, <<"3", ".", "0">>, <<"3", ".", "14">>,
   <<"0", ".", "96">>, <<"-", "0", ".", "04">>, <<"21", ".", "3">>}

\* the raw values: None, strings with and without blanks around them, numbers
Values ==
  {PyNone} \cup {PyStr(p) : p \in UNION {Padded(s) : s \in Texts}}
    \cup {PyNum(n) : n \in Numbers}

\* the values of "type" in a mapping entry, and the 'text' of line 202
FieldTypes == {"title", "number", "date", "url", "rich_text", "text"}

\* the property maps extract_page_properties and new_props can be: some of
\* the keys, each with one of a few strings
PropKeys == {"Game Name", "Last Played", "cover", "Genre"}
PropTexts ==
  {<<>>, <<"2024-01-01", "T", "10:00">>, <<"2024-01-01", "T", "10:00", ":30">>}
PropMaps(keys) == UNION {[ks -> PropTexts] : ks \in SUBSET keys}

\* the cover of a page: null, an external link, a file Notion stores
PageCovers ==
  {[kind |-> "none", url |-> <<>>],
   [kind |-> "external", url |-> <<" ", "https://cdn/a.jpg">>],
   [kind |-> "file", url |-> <<"https://files/a.jpg">>]}

\* the pages a query can return: any of the properties of a filled or of an
\* empty page, under any cover
Pages ==
  {[id |-> 1,
    properties |-> [f \in fields |-> base.properties[f]],
    cover |-> cover] :
     base \in {FullPage(PyStr(DateA), <<"https://cdn/a.jpg">>), NullPage},
     fields \in SUBSET {"Name", "Playtime", "Last Played", "Icon", "Logo"},
     cover \in PageCovers}

\* the module imported and nothing run
Idle ==
  /\ mapping = <<>>
  /\ games = <<>>
  /\ store = <<>>
  /\ cache = ""
  /\ run = 1
  /\ pc = "start"
  /\ data_source_id = ""
  /\ idx = 0
  /\ attempt = 0
  /\ existing_page = 0
  /\ faults = 0
  /\ log = <<>>

InitPure ==
  /\ Idle
  /\ \/ \E value \in Values, field_type \in FieldTypes :
          call = [fn |-> "normalize_value", value |-> value,
                  field_type |-> field_type, returned |-> FALSE, ret |-> <<>>]
     \/ \E existing \in PropMaps(PropKeys),
           new \in PropMaps(PropKeys \ {"Genre"}) :
          call = [fn |-> "properties_equal", existing |-> existing,
                  new |-> new, mapping |-> <<ETitle, EDate>>,
                  returned |-> FALSE, ret |-> FALSE]
     \/ \E page \in Pages :
          call = [fn |-> "extract_page_properties", page |-> page,
                  mapping |-> <<ETitle, ENumber, EDate, EUrl, ERich>>,
                  returned |-> FALSE, raised |-> FALSE, ret |-> EmptyMap]

\* normalize_value(value, field_type) returns
Normalize ==
  /\ call.fn = "normalize_value"
  /\ ~call.returned
  /\ call' = [call EXCEPT !.returned = TRUE,
                          !.ret = normalize_value(call.value, call.field_type)]
  /\ UNCHANGED sync

\* the result is passed to normalize_value again, under the same type
Renormalize ==
  /\ call.fn = "normalize_value"
  /\ call.returned
  /\ call.value # PyStr(call.ret)
  /\ call' = [call EXCEPT !.value = PyStr(call.ret), !.returned = FALSE,
                          !.ret = <<>>]
  /\ UNCHANGED sync

\* properties_equal(existing, new, mapping) returns
Equal ==
  /\ call.fn = "properties_equal"
  /\ ~call.returned
  /\ call' = [call EXCEPT !.returned = TRUE,
                          !.ret = properties_equal(call.existing, call.new,
                                                   call.mapping)]
  /\ UNCHANGED sync

\* extract_page_properties(page, mapping) returns, or raises
Extract ==
  /\ call.fn = "extract_page_properties"
  /\ ~call.returned
  /\ call' = IF ExtractRaises(call.page, call.mapping)
               THEN [call EXCEPT !.returned = TRUE, !.raised = TRUE]
               ELSE [call EXCEPT !.returned = TRUE,
                                 !.ret = extract_page_properties(call.page,
                                                                 call.mapping)]
  /\ UNCHANGED sync

NextPure == Normalize \/ Renormalize \/ Equal \/ Extract

SpecPure == InitPure /\ [][NextPure]_vars

\* ------------------------------------------------------ reading the log

Calls == {"Lookup", "Create", "Update"}
Writes == {"Create", "Update"}

\* where the run stands while a call's retry loop is running
PcOf(op) ==
  CASE op = "Lookup" -> "lookup" [] op = "Create" -> "create" [] OTHER -> "update"

\* two log entries are attempts of the same call
SameCall(a, b) == a.run = b.run /\ a.rec = b.rec /\ a.op = b.op

\* the log entries of record r in run n
EntriesOf(n, r) == {i \in 1..Len(log) : log[i].run = n /\ log[i].rec = r}

\* the record at index r has a name after trimming
Named(r) == r \in 1..Len(games) /\ GameName(games[r]) # <<>>

\* the calls (first attempts) of kind ops made for record r in run n
CallsOf(n, r, ops) ==
  {i \in EntriesOf(n, r) : log[i].op \in ops /\ log[i].att = 1}

\* a format of the mapping names a field the record does not have
MissingField(game) ==
  \E i \in 1..Len(mapping) :
    /\ mapping[i].has_format
    /\ \E f \in FormatFields(mapping[i].format) : f \notin DOMAIN game

\* ... and the field is not one of the two that line 298-299 default
MissingUndefaulted(game) ==
  \E i \in 1..Len(mapping) :
    /\ mapping[i].has_format
    /\ \E f \in FormatFields(mapping[i].format) :
         f \notin DOMAIN game \cup {"Achievements Unlocked", "Achievements Total"}

\* the records have unique, non-empty names
UniqueNames ==
  \A i, j \in 1..Len(games) :
    /\ Named(i)
    /\ i # j => GameName(games[i]) # GameName(games[j])

\* ------------------------------------------------------------------ claims

\* C1: idempotence of a sync run. When a first run has completed with every
\* remote call succeeding, a second run over the same records issues no
\* Create and no Update. Stated here for well-formed mappings, records with
\* unique non-empty names and no failing request in either run.
C1_SecondRunAllSkip ==
  (~Malformed(mapping) /\ UniqueNames /\ run >= 2 /\ faults = 0)
    => \A i \in 1..Len(log) : log[i].run = 2 => log[i].op \notin Writes

\* the Lookup of record r in run n failed: a status other than 200, or an
\* SSL error on the third attempt
LookupFailed(n, r) ==
  \E i \in EntriesOf(n, r) :
    /\ log[i].op = "Lookup"
    /\ \/ log[i].res = "http"
       \/ log[i].res = "ssl" /\ log[i].att = 3

\* C2: a failed Lookup ends the record as Failed: no Create and no Update is
\* issued for a record whose Lookup failed.
C2_FailedLookupNoWrite ==
  \A i \in 1..Len(log) :
    log[i].op \in Writes => ~LookupFailed(log[i].run, log[i].rec)

\* the safety half of C3: Lookup before any write, at most one Lookup call
\* and one write call per record and run, no write for a page found equal
C3_PerRecordOrder ==
  \A n \in 1..run : \A r \in 1..Len(games) :
    /\ Cardinality(CallsOf(n, r, {"Lookup"})) <= 1
    /\ Cardinality(CallsOf(n, r, Writes)) <= 1
    /\ \A i, j \in EntriesOf(n, r) :
         log[i].op = "Lookup" /\ log[j].op \in Writes => i < j
    /\ \A i \in EntriesOf(n, r) :
         (log[i].op = "Lookup" /\ log[i].id # 0 /\ log[i].equal)
           => \A j \in EntriesOf(n, r) : log[j].op \notin Writes

C4_DecisionRule ==
  ~Malformed(mapping) => \A i \in 1..Len(log) :
    /\ log[i].op = "Create" =>
         \E j \in 1..(i - 1) :
           /\ log[j].op = "Lookup" /\ log[j].run = log[i].run
           /\ log[j].rec = log[i].rec /\ log[j].res = "ok" /\ log[j].id = 0
    /\ log[i].op = "Update" =>
         \E j \in 1..(i - 1) :
           /\ log[j].op = "Lookup" /\ log[j].run = log[i].run
           /\ log[j].rec = log[i].rec /\ log[j].res = "ok"
           /\ log[j].id = log[i].id /\ log[j].id # 0 /\ ~log[j].equal
    /\ (log[i].op = "Lookup" /\ log[i].res = "ok" /\ i < Len(log)) =>
         IF log[i].id = 0 THEN log[i + 1].op = "Create"
         ELSE IF log[i].equal THEN log[i + 1].op = "Pace"
         ELSE log[i + 1].op = "Update"

\* C5: bounded retry. A call makes at most 3 attempts; an attempt after the
\* first directly follows an attempt of the same call that ended in a
\* transport failure; an attempt that ended in a response, 2xx or not, is the
\* call's last.
C5_BoundedRetry ==
  \A i \in 1..Len(log) :
    log[i].op \in Calls =>
      /\ log[i].att \in 1..3
      /\ Cardinality({j \in 1..Len(log) : SameCall(log[j], log[i])}) <= 3
      /\ log[i].att > 1 =>
           /\ SameCall(log[i - 1], log[i])
           /\ log[i - 1].att = log[i].att - 1
           /\ log[i - 1].res \in {"ssl", "timeout"}
      /\ log[i].res \in {"ok", "http"} =>
           /\ log[i].next # PcOf(log[i].op)
           /\ i < Len(log) => ~SameCall(log[i + 1], log[i])

\* a call succeeded on its third attempt, and a call ended on a status code
C5_Witness ==
  /\ \E i \in 1..Len(log) :
       log[i].op \in Calls /\ log[i].att = 3 /\ log[i].res = "ok"
  /\ \E i \in 1..(Len(log) - 1) : log[i].op \in Calls /\ log[i].res = "http"

C7_LaterRecordsLookedUp ==
  pc \in {"done", "aborted"} =>
    \A i \in 1..Len(log) :
      (log[i].run = run /\ log[i].op \in Calls /\ log[i].res # "ok") =>
        \A r \in (log[i].rec + 1)..Len(games) :
          Named(r) => CallsOf(run, r, {"Lookup"}) # {}

\* C8 as claimed: no Create and no Update is issued for a record that lacks
\* a field a format template names.
C8_NoWriteOnMissingField ==
  \A i \in 1..Len(log) :
    log[i].op \in Writes => ~MissingField(games[log[i].rec])

\* C8 as amended: no Create and no Update is issued for a record that lacks
\* a field a format template names, other than the two achievement fields
\* the run fills with defaults.
C8_NoWriteOnUndefaultedField ==
  \A i \in 1..Len(log) :
    log[i].op \in Writes => ~MissingUndefaulted(games[log[i].rec])

\* the run reached a record that lacks a field without a default, after it
\* wrote an earlier record, and stopped there
C8_Witness ==
  /\ pc = "aborted"
  /\ idx \in 2..Len(games)
  /\ Named(idx)
  /\ MissingUndefaulted(games[idx])
  /\ \E i \in 1..Len(log) : log[i].op \in Writes /\ log[i].res = "ok"

\* C9: a per-record data error does not abort the run. When a run that got
\* its collection id has ended, every record with a name and with all the
\* fields its templates name, placed after a record that lacks one, has been
\* processed.
C9_DataErrorDoesNotAbort ==
  (pc \in {"done", "aborted"} /\ data_source_id # "") =>
    \A r \in 1..Len(games) : \A q \in (r + 1)..Len(games) :
      (Named(r) /\ MissingField(games[r]) /\ Named(q) /\ ~MissingField(games[q]))
        => EntriesOf(run, q) # {}

\* C10: a malformed mapping is fatal at startup. With a mapping that has no
\* title entry or an entry of unknown wire type, no Lookup, Create or Update
\* is ever issued.
C10_MalformedMappingNoCalls ==
  Malformed(mapping) => \A i \in 1..Len(log) : log[i].op \notin Calls

\* the record has no name, or one that is blank once trimmed
BlankName(game) ==
  "Game Name" \notin DOMAIN game \/ Strip(game["Game Name"].v) = <<>>

\* C11: empty names are excluded. A record whose name is empty after trimming
\* causes no Lookup, Create or Update, and the run does not stop at it: a run
\* is never in a request, asleep or aborted at such a record, and a run that
\* got its collection id returns only after the last record.
C11_EmptyNameExcluded ==
  /\ \A i \in 1..Len(log) :
       log[i].op \in Calls => ~BlankName(games[log[i].rec])
  /\ (pc \in {"lookup", "create", "update", "pace"} \/
      (pc = "aborted" /\ data_source_id # ""))
       => idx \in 1..Len(games) /\ ~BlankName(games[idx])
  /\ (pc = "done" /\ data_source_id # "") => idx = Len(games) + 1

\* a record with a blank name came first, and the record after it was
\* looked up and written
C11_Witness ==
  /\ Len(games) = 2
  /\ BlankName(games[1])
  /\ \E i \in 1..Len(log) : log[i].rec = 2 /\ log[i].op = "Lookup"
  /\ \E i \in 1..Len(log) :
       log[i].rec = 2 /\ log[i].op \in Writes /\ log[i].res = "ok"
  /\ pc = "done"

\* the log entries of run n
RunEntries(n) == {i \in 1..Len(log) : log[i].run = n}

\* the collection id a run has when no request resolves it: the one the last
\* successful resolution before it left in the cache
ResolvedBefore(i) ==
  LET ok == {j \in 1..(i - 1) : log[j].op = "Resolve" /\ log[j].res = "ok"}
  IN IF ok = {} THEN "" ELSE log[CHOOSE j \in ok : \A k \in ok : k <= j].ds

\* C12: the collection id is resolved once. A run sends at most one Resolve
\* request, before any Lookup; every Lookup and Create of the run carries the
\* id that was resolved, which is not empty; after a failed resolution the
\* run ends and no Lookup, Create or Update of that run exists.
C12_ResolvedOnce ==
  \A n \in 1..run :
    LET resolves == {i \in RunEntries(n) : log[i].op = "Resolve"} IN
    /\ Cardinality(resolves) <= 1
    /\ \A i \in resolves : \A j \in RunEntries(n) : j # i => i < j
    /\ \A j \in RunEntries(n) :
         log[j].op \in {"Lookup", "Create"} =>
           /\ log[j].ds # ""
           /\ log[j].ds = ResolvedBefore(j)
    /\ \A i \in resolves :
         log[i].res # "ok" =>
           /\ \A j \in RunEntries(n) : log[j].op \notin Calls
           /\ (n = run) => pc \in {"done", "aborted"}

\* a run failed to resolve the id and sent nothing more; the next run
\* resolved it and sent a Lookup and a Create
C12_Witness ==
  /\ run = 2
  /\ \E i \in RunEntries(1) : log[i].op = "Resolve" /\ log[i].res # "ok"
  /\ \E i \in RunEntries(2) : log[i].op = "Resolve" /\ log[i].res = "ok"
  /\ \E i \in RunEntries(2) : log[i].op = "Lookup"
  /\ \E i \in RunEntries(2) : log[i].op = "Create" /\ log[i].res = "ok"

\* C13: sequential processing in input order. Requests are sent one at a
\* time, each after the response or failure of the one before it (an entry of
\* the log is a finished attempt, and the run is in one retry loop at most);
\* within a run the requests and the pacing sleep of a record all come before
\* the first request of any later record, and no request of an earlier
\* record follows.
C13_SequentialInOrder ==
  /\ \A i, j \in 1..Len(log) :
       (i < j /\ log[i].run = log[j].run) => log[i].rec <= log[j].rec
  /\ \A i \in RunEntries(run) : log[i].rec <= idx
  /\ attempt > 0 => pc \in {"lookup", "create", "update"}

\* both records of a run were looked up and written, the first before the
\* second
C13_Witness ==
  /\ \E i, j \in RunEntries(1) :
       /\ i < j
       /\ log[i].rec = 1 /\ log[i].op \in Writes
       /\ log[j].rec = 2 /\ log[j].op = "Lookup"
  /\ \E j \in RunEntries(1) : log[j].rec = 2 /\ log[j].op \in Writes
  /\ pc = "done"

\* C14: normalization is idempotent. Whatever normalize_value returns for a
\* value and a wire type, normalizing that result again under the same type
\* returns it unchanged.
C14_NormalizeIdempotent ==
  (call.fn = "normalize_value" /\ call.returned)
    => normalize_value(PyStr(call.ret), call.field_type) = call.ret

\* the types of the entries of the mapping
TypesOf(m) == {m[i].type : i \in 1..Len(m)}

\* the record has every field the mapping reads
NoMissingField(game, m) ==
  \A i \in 1..Len(m) :
    IF m[i].has_format THEN FormatFields(m[i].format) \subseteq DOMAIN game
    ELSE m[i].local \in DOMAIN game

\* the last entry of the log is a successful Create: the store holds the new
\* page as the request made it
JustCreated ==
  /\ log # <<>>
  /\ log[Len(log)].op = "Create"
  /\ log[Len(log)].res = "ok"

\* decoding the page just created gives a map that properties_equal finds
\* equal to the record's new_props
RoundTrips ==
  LET last == log[Len(log)]
      page == PageOf(store, last.id)
  IN /\ ~ExtractRaises(page, mapping)
     /\ properties_equal(extract_page_properties(page, mapping),
                         NewProps(SafeGame(games[last.rec]), mapping), mapping)

Untimed == {<<d>> : d \in DateToks}
Timed ==
  {<<d, "T", hm>> : d \in DateToks, hm \in HMToks}
    \cup {<<d, "T", hm, sec>> : d \in DateToks, hm \in HMToks, sec \in SecToks}
    \cup {<<d, "T", hm, sec, f>> :
            d \in DateToks, hm \in HMToks, sec \in SecToks, f \in FracToks}
Timestamps == Untimed \cup Timed \cup {t \o <<"Z">> : t \in Timed}

\* the day and the minute a timestamp denotes
MinuteOf(t) == <<t[1], IF Len(t) >= 3 THEN t[3] ELSE "00:00">>

\* the last entry of the log is a Lookup that found a page
JustFound ==
  /\ log # <<>>
  /\ log[Len(log)].op = "Lookup"
  /\ log[Len(log)].res = "ok"
  /\ log[Len(log)].id # 0

\* C16: date drift decides Skip or Update. Under the mapping of a title and a
\* date, for a page found with the record's cover: when the local and the
\* remote date are timestamps of the same minute, whatever their seconds,
\* fraction or trailing Z, the record is skipped; when they are timestamps of
\* different minutes, an Update follows; and a local date that is no
\* timestamp normalizes to the empty string.
C16_DateDrift ==
  /\ (JustFound /\ mapping = <<ETitle, EDate>>) =>
       LET last == log[Len(log)]
           page == PageOf(store, last.id)
           game == games[last.rec]
           local == Get(game, "Last Played", PyNone)
           remote == page.properties["Last Played"].val
       IN (/\ CoverUrl(page) = Strip(game["Banner"].v)
           /\ local.k = "str" /\ Strip(local.v) \in Timestamps
           /\ remote.k = "str" /\ Strip(remote.v) \in Timestamps)
            => IF MinuteOf(Strip(local.v)) = MinuteOf(Strip(remote.v))
                 THEN last.next = "pace" /\ last.equal
                 ELSE last.next = "update" /\ ~last.equal
  /\ \A r \in 1..Len(games) :
       LET local == Get(games[r], "Last Played", PyNone) IN
       (local.k = "str" /\ Strip(local.v) \notin Timestamps)
         => normalize_value(local, "date") = <<>>

\* a page was found whose date is spelled differently from the record's and
\* denotes the same minute, and the record was skipped
C16_Witness ==
  /\ JustFound
  /\ mapping = <<ETitle, EDate>>
  /\ LET last == log[Len(log)]
         local == Get(games[last.rec], "Last Played", PyNone)
         remote == PageOf(store, last.id).properties["Last Played"].val
     IN /\ local.k = "str" /\ local.v \in Timestamps
        /\ remote.k = "str" /\ remote.v \in Timestamps
        /\ local.v # remote.v
        /\ MinuteOf(local.v) = MinuteOf(remote.v)
        /\ last.next = "pace"

\* C17: zero value for a missing field. In the page a Create makes, a mapping
\* entry without a format whose local field the record lacks is written with
\* the zero value of its type: the empty string for a text or url entry, the
\* number 0 for a number entry, and no property at all for a date entry.
C17_ZeroValue ==
  JustCreated =>
    LET last == log[Len(log)]
        page == PageOf(store, last.id)
        game == SafeGame(games[last.rec])
    IN \A i \in 1..Len(mapping) :
         LET e == mapping[i] IN
         (~e.has_format /\ e.local \notin DOMAIN game) =>
           CASE e.type = "date" -> e.notion_field \notin DOMAIN page.properties
             [] e.type = "number" ->
                  /\ e.notion_field \in DOMAIN page.properties
                  /\ page.properties[e.notion_field].val = PyNum(<<"0">>)
             [] OTHER ->
                  /\ e.notion_field \in DOMAIN page.properties
                  /\ page.properties[e.notion_field].val = PyStr(<<>>)

\* the last entry of the log is a successful Update: the store holds the
\* page as the request left it
JustUpdated ==
  /\ log # <<>>
  /\ log[Len(log)].op = "Update"
  /\ log[Len(log)].res = "ok"

\* C18: Update converges. Under a mapping of the types the decoder knows,
\* right after a successful Update the page decodes to a map equal, under
\* properties_equal, to the record's candidate properties, and the Lookup of
\* the record in the next run finds the page equal; also when the record's
\* date is empty and the page has one.
C18_UpdateConverges ==
  TypesOf(mapping) \subseteq {"title", "number", "date", "url", "rich_text"} =>
    /\ JustUpdated =>
         LET last == log[Len(log)]
             page == PageOf(store, last.id)
         IN /\ ~ExtractRaises(page, mapping)
            /\ properties_equal(extract_page_properties(page, mapping),
                                NewProps(SafeGame(games[last.rec]), mapping),
                                mapping)
    /\ \A i, j \in 1..Len(log) :
         (/\ log[i].op = "Update" /\ log[i].res = "ok"
          /\ log[j].op = "Lookup" /\ log[j].res = "ok"
          /\ log[j].run = log[i].run + 1 /\ log[j].rec = log[i].rec
          /\ log[j].id = log[i].id)
           => log[j].equal

\* the raw date is null or the empty string
EmptyDate(value) == value.k = "none" \/ (value.k = "str" /\ value.v = <<>>)

\* C19: the date is omitted, not cleared. Whenever a Create or an Update
\* succeeds, for every date entry of the mapping: if the record's raw date is
\* null or empty, the page made by the Create has no property of the entry's
\* remote field, and the page addressed by the Update has the property it
\* had before, or still none; if the raw date is not empty, the page holds it.
C19_DateOmitted ==
  [][(/\ pc \in {"create", "update"}
      /\ log' # log
      /\ log'[Len(log')].res = "ok") =>
       LET last == log'[Len(log')]
           game == SafeGame(games[idx])
           before == IF last.op = "Update" THEN PageOf(store, last.id).properties
                     ELSE EmptyMap
           after == PageOf(store', last.id).properties
       IN \A i \in 1..Len(mapping) :
            LET e == mapping[i]
                value == EntryValue(e, game)
            IN e.type = "date" =>
                 IF EmptyDate(value)
                   THEN /\ (e.notion_field \in DOMAIN after)
                             = (e.notion_field \in DOMAIN before)
                        /\ e.notion_field \in DOMAIN before =>
                             after[e.notion_field] = before[e.notion_field]
                   ELSE /\ e.notion_field \in DOMAIN after
                        /\ after[e.notion_field] = [kind |-> "date", val |-> value]
     ]_vars

\* an Update of a record without a date succeeded and the page still has the
\* date it had
C19_Witness ==
  /\ JustUpdated
  /\ \E i \in 1..Len(mapping) :
       /\ mapping[i].type = "date"
       /\ EmptyDate(EntryValue(mapping[i], SafeGame(games[log[Len(log)].rec])))
       /\ LET props == PageOf(store, log[Len(log)].id).properties IN
          /\ mapping[i].notion_field \in DOMAIN props
          /\ props[mapping[i].notion_field].val \in RemoteDates

\* the wire type a key is compared under: the type of its mapping entry, or
\* text for a key the mapping does not have
KeyType(m, key) ==
  IF \E i \in 1..Len(m) : m[i].local = key
    THEN m[CHOOSE i \in 1..Len(m) : m[i].local = key].type
    ELSE "text"

\* one side of the comparison of a key: the normalized string, or empty for
\* a key the map does not have
Side(props, key, m) ==
  IF key \in DOMAIN props
    THEN normalize_value(PyStr(props[key]), KeyType(m, key))
    ELSE <<>>

\* the map without the keys outside `keys`
Restrict(props, keys) == [key \in DOMAIN props \cap keys |-> props[key]]

\* C20: the comparison looks at the candidate's keys only. properties_equal
\* returns true exactly when the two sides of every key of the candidate map
\* normalize to the same string under the key's wire type (text for a key
\* that is not in the mapping), a key the existing map lacks counting as
\* empty; the keys only the existing map has do not change the result.
C20_CandidateKeysOnly ==
  (call.fn = "properties_equal" /\ call.returned) =>
    /\ call.ret = (\A key \in DOMAIN call.new :
                     Side(call.existing, key, call.mapping)
                       = Side(call.new, key, call.mapping))
    /\ call.ret = properties_equal(Restrict(call.existing, DOMAIN call.new),
                                   call.new, call.mapping)

\* the comparison returned true although the existing map has a key the
\* candidate lacks and lacks a key the candidate has
C20_Witness ==
  /\ call.fn = "properties_equal"
  /\ call.returned
  /\ call.ret
  /\ "Genre" \in DOMAIN call.existing
  /\ call.existing["Genre"] # <<>>
  /\ \E key \in DOMAIN call.new : key \notin DOMAIN call.existing
  /\ \E key \in DOMAIN call.new :
       key \in DOMAIN call.existing /\ call.existing[key] # call.new[key]

\* ---------------------------------------------------------------------- C21

\* a call of extract_page_properties that returned a map
Extracted ==
  /\ call.fn = "extract_page_properties"
  /\ call.returned
  /\ ~call.raised

\* C21: the map extract_page_properties returns has a mapped local field as
\* a key only when the page's properties hold that entry's remote field, and
\* always has the key "cover": the url of the external cover if the page has
\* one, else the url of the stored file, else the empty string.
C21_DecodeReadsWhatIsThere ==
  Extracted =>
    /\ \A i \in 1..Len(call.mapping) :
         call.mapping[i].local \in DOMAIN call.ret
           => call.mapping[i].notion_field \in DOMAIN call.page.properties
    /\ "cover" \in DOMAIN call.ret
    /\ call.ret["cover"] =
         CASE call.page.cover.kind = "external" -> Strip(call.page.cover.url)
           [] call.page.cover.kind = "file" -> Strip(call.page.cover.url)
           [] OTHER -> <<>>

\* a page with a stored-file cover that holds the title and lacks the date:
\* the name is decoded, "Last Played" is no key of the result
C21_Witness ==
  /\ Extracted
  /\ call.page.cover.kind = "file"
  /\ call.ret["cover"] # <<>>
  /\ "Name" \in DOMAIN call.page.properties
  /\ "Last Played" \notin DOMAIN call.page.properties
  /\ "Game Name" \in DOMAIN call.ret
  /\ "Last Played" \notin DOMAIN call.ret

\* ---------------------------------------------------------------------- C22

\* log entries i < j are the last remote call of one record and the first
\* remote call of the next record processed in the same run
NextRecord(i, j) ==
  /\ i < j
  /\ log[i].op \in Calls
  /\ log[j].op \in Calls
  /\ log[i].run = log[j].run
  /\ log[i].rec # log[j].rec
  /\ \A k \in (i + 1)..(j - 1) : log[k].op \notin Calls

\* C22: between the last remote call of one processed record and the first
\* remote call of the next processed record exactly one pacing delay occurs,
\* the one of the earlier record, however that record's calls ended.
C22_PacedBetweenRecords ==
  \A i, j \in 1..Len(log) :
    NextRecord(i, j) =>
      /\ Cardinality({k \in (i + 1)..(j - 1) : log[k].op = "Pace"}) = 1
      /\ \A k \in (i + 1)..(j - 1) :
           log[k].op = "Pace" => log[k].rec = log[i].rec /\ log[k].run = log[i].run

\* the first record's Create was refused, the delay followed, and the second
\* record's Lookup came after it
C22_Witness ==
  \E i, j \in 1..Len(log) :
    /\ NextRecord(i, j)
    /\ log[i].op = "Create"
    /\ log[i].res = "http"
    /\ j = i + 2
    /\ log[i + 1].op = "Pace"
    /\ log[j].op = "Lookup"

\* ---------------------------------------------------------------------- C23

\* the title the page `id` holds under the mapping's title field
TitleOf(id) == PageOf(store, id).properties[TitleField(mapping)].val.v

\* C23: the name Lookup filters on is the title Create and Update write: the
\* page a successful write leaves has the record's lookup name as its title,
\* and every later successful Lookup for a record that was created returns
\* the page that Create made.
C23_LookupKeyIsTitle ==
  /\ (/\ log # <<>>
      /\ log[Len(log)].op \in Writes
      /\ log[Len(log)].res = "ok"
      /\ TitleField(mapping) # "")
       => TitleOf(log[Len(log)].id) = GameName(games[log[Len(log)].rec])
  /\ \A i, j \in 1..Len(log) :
       (/\ i < j
        /\ log[i].op = "Create" /\ log[i].res = "ok"
        /\ log[j].op = "Lookup" /\ log[j].res = "ok"
        /\ log[j].rec = log[i].rec)
         => log[j].id = log[i].id

\* ---------------------------------------------------------------------- C24

\* C24: decode is total. Whatever page a Lookup returns, also one whose
\* mapped url, number or date property is null, extract_page_properties
\* returns a map and the run goes on to compare, update or skip: no Lookup
\* that found a page is followed by the run's abort.
C24_DecodeTotal ==
  \A i \in 1..Len(log) :
    (log[i].op = "Lookup" /\ log[i].id # 0) => log[i].next # "aborted"

\* ---------------------------------------------------------------------- C25

\* the log entry is a resolution request that returned the id `ds`
Resolved(e, ds) == e.op = "Resolve" /\ e.res = "ok" /\ e.ds = ds

\* C25: the cache is unset or holds the id a successful resolution
\* returned. A call of get_data_source_id with the cache unset issues the
\* request, and when that request fails the cache stays unset; a call with
\* the cache set issues no request and returns the cached id, which stays.
C25_CacheInvariant ==
  [][/\ cache' # "" => \E i \in 1..Len(log') : Resolved(log'[i], cache')
     /\ (pc = "start" /\ cache = "")
          => /\ Len(log') = Len(log) + 1
             /\ log'[Len(log')].op = "Resolve"
             /\ log'[Len(log')].res # "ok" => cache' = ""
     /\ (pc = "start" /\ cache # "")
          => /\ log' = log
             /\ data_source_id' = cache
             /\ cache' = cache]_vars

\* a second run in the same process took the id from the cache: its loop
\* has started and the log holds no resolution request of that run
C25_Witness ==
  /\ run = 2
  /\ pc = "loop"
  /\ cache # ""
  /\ data_source_id = cache
  /\ \E i \in 1..Len(log) : log[i].run = 1 /\ Resolved(log[i], cache)
  /\ \A i \in 1..Len(log) : log[i].run = 2 => log[i].op # "Resolve"

====
